---- MODULE Spec2Model ----
(***************************************************************************)
(* Verification model of the scheduling service: the task store and its    *)
(* background executor (app/models/task.py, app/services/processor.py),    *)
(* the greedy scheduler (app/services/scheduler/greedy_scheduler.py) and   *)
(* the direction cache (app/services/direction.py,                         *)
(* app/models/direction.py).  Each subsystem has its own specification     *)
(* (SpecTasks, SpecGreedy, SpecDirections) over the shared variable list;  *)
(* a specification leaves the other subsystems' variables untouched.       *)
(***************************************************************************)
EXTENDS Integers, Sequences, FiniteSets, TLC

VARIABLES
    \* ---- task store and executors
    tasks,      \* the "tasks" collection: id -> [status, response, error_message]
    exPc,       \* executor -> position in fetch_and_process_pending_tasks
    exIds,      \* executor -> ids read by the find() of get_pending_tasks
    co,         \* executor -> (id -> state of its process_task coroutine)
    claimed,    \* executor -> every id a get_pending_tasks call returned to it
    \* ---- one run of GreedyScheduler.schedule()
    request,    \* the ScheduleRequest: bookings and the optional time settings
    routes,     \* what get_direction yields per (origin, destination)
    gpc,        \* position in GreedyScheduler._calculate
    trips,      \* booking index -> its TripInfo
    all_trips,  \* the list all_trips (booking indices, in list order)
    priority_trips, \* the three priority buckets of _get_priority_trips
    cursor,     \* number of trips _schedule_trips has placed so far
    plan,       \* the list of ShuttleInfo: each [idx, trips]
    responses,  \* run -> the ScheduleResponse that run of the pipeline returned
    \* ---- direction cache
    directions, \* the "directions" collection: a set of documents, unique by key
    now,        \* the clock (seconds), read by datetime.now(timezone.utc)
    fetchers,   \* caller -> state of its get_direction coroutine
    reaper,     \* the store's TTL monitor: time and removals of its last pass
    \* ---- one run of ORToolsScheduler.schedule() behind POST /api/schedule
    cpc,        \* position in ORToolsScheduler._calculate
    vehicles,   \* self.vehicles: the fleet loaded from the program store
    bookings,   \* self.bookings: the list of BookingInfo
    solution,   \* the solver's answer: [status, assignments, times]
    shuttles,   \* the list _extract_solution returns
    raised,     \* the message of the ValueError that ended the run, or None
    reply,      \* what POST /api/schedule answered
    \* ---- the processor of one process
    processor,  \* the global _processor: 0 for None, else the TaskProcessor's index
    instances,  \* the TaskProcessor objects made so far: each [is_running, task]
    loops       \* the run_processor_loop tasks made so far: each [instance, pc]

taskVars == <<tasks, exPc, exIds, co, claimed>>
greedyVars == <<request, routes, gpc, trips, all_trips, priority_trips, cursor, plan,
               responses>>

dirVars == <<directions, now, fetchers, reaper>>

cpVars == <<cpc, vehicles, bookings, solution, shuttles, raised, reply>>

procVars == <<processor, instances, loops>>

vars == <<taskVars, greedyVars, dirVars, cpVars, procVars>>

\* A step of one subsystem leaves the others alone.
TaskFrame == UNCHANGED <<greedyVars, dirVars, cpVars, procVars>>
GreedyFrame == UNCHANGED <<taskVars, dirVars, cpVars, procVars>>
DirFrame == UNCHANGED <<taskVars, greedyVars, cpVars, procVars>>
CpFrame ==
    UNCHANGED <<taskVars, dirVars, gpc, trips, all_trips, priority_trips, cursor, plan,
                responses, procVars>>
ProcFrame == UNCHANGED <<taskVars, greedyVars, dirVars, cpVars>>

\* Python's None.
None == "None"

\* None of an Optional[int] or Optional[datetime] (instants and durations are >= 0).
NoInt == -1

\* Python truthiness of an Optional[str] / Optional[model] argument.
Truthy(x) == x /= None /\ x /= ""

\* The process before start_processor: no TaskProcessor, no loop task.
ProcIdle ==
    /\ processor = 0
    /\ instances = << >>
    /\ loops = << >>

\* The solver has not answered.
NoSolution == [status |-> None, assignments |-> << >>, times |-> << >>]

\* No constraint-programming run in progress.
CpIdle ==
    /\ cpc = "idle"
    /\ vehicles = << >>
    /\ bookings = << >>
    /\ solution = NoSolution
    /\ shuttles = << >>
    /\ raised = None
    /\ reply = << >>

\* The two ways the pipeline is run on a request: by POST /api/schedule and by
\* process_task.
Runs == {"sync", "task"}

\* No run has returned.
NoResponses == [run \in Runs |-> << >>]

\* No scheduling run in progress.
GreedyIdle ==
    /\ request = None
    /\ routes = None
    /\ gpc = "idle"
    /\ trips = << >>
    /\ all_trips = << >>
    /\ priority_trips = << >>
    /\ cursor = 0
    /\ plan = << >>
    /\ responses = NoResponses

\* The callers of get_direction.
Callers == {"f1", "f2"}

\* A caller that is not inside get_direction.
NoFetch ==
    [pc |-> "idle", via |-> "", origin |-> "", destination |-> "",
     cached |-> << >>, provided |-> << >>, data |-> << >>, called |-> FALSE,
     result |-> << >>, error |-> ""]

\* Empty direction cache, nobody fetching.
DirIdle ==
    /\ directions = {}
    /\ now = 0
    /\ fetchers = [c \in Callers |-> NoFetch]
    /\ reaper = [at |-> NoInt, removed |-> {}]

(***************************************************************************)
(* Task store (app/models/task.py) and executor (app/services/processor.py)*)
(***************************************************************************)

\* Number of tasks ever created in a run.
MaxTasks == 2
MaxFairTasks == 1

\* Executors polling the same "tasks" collection.
Executors == {"e1", "e2"}

\* PROCESSOR_BATCH_SIZE environment setting (default "10").
PROCESSOR_BATCH_SIZE == 2

PENDING == "PENDING"
PROCESSING == "PROCESSING"
COMPLETED == "COMPLETED"
FAILED == "FAILED"

\* What schedule(task.request) can do: return a response or raise e; msg is str(e).
Outcomes ==
    { [kind |-> "return", response |-> "response", msg |-> None] } \cup
    { [kind |-> "raise", response |-> None, msg |-> m] : m \in {"", "No route found"} }

\* Task(request=...) as inserted by create_task: status defaults to PENDING.
NewTask == [status |-> PENDING, response |-> None, error_message |-> None]

\* find() with the filter on the wrong status: PROCESSING tasks instead of
\* PENDING ones.
PendingBatches_Processing(limit) ==
    LET pending == {id \in DOMAIN tasks : tasks[id].status = PROCESSING}
        n == IF Cardinality(pending) < limit THEN Cardinality(pending) ELSE limit
    IN {b \in SUBSET pending : Cardinality(b) = n}

\* find({"status": "PENDING"}).limit(limit): the batches the store may return.
PendingBatches(limit) ==
    LET pending == {id \in DOMAIN tasks : tasks[id].status = PENDING}
        n == IF Cardinality(pending) < limit THEN Cardinality(pending) ELSE limit
    IN {b \in SUBSET pending : Cardinality(b) = n}

\* update_many({"id": {"$in": ids}}, {"$set": {"status": "PROCESSING"}})
UpdateManyProcessing(t, ids) ==
    [id \in DOMAIN t |-> IF id \in ids THEN [t[id] EXCEPT !.status = PROCESSING] ELSE t[id]]

\* TaskCRUD.update_task: $set of status, and of response / error_message when truthy.
update_task(t, id, status, response, error_message) ==
    IF id \notin DOMAIN t THEN t
    ELSE [t EXCEPT ![id] =
            [status |-> status,
             response |-> IF Truthy(response) THEN response ELSE @.response,
             error_message |-> IF Truthy(error_message) THEN error_message
                               ELSE @.error_message]]

NoCoroutine == [pc |-> "none", out |-> None]

\* The task subsystem before any request.
TasksIdle ==
    /\ tasks = << >>
    /\ exPc = [e \in Executors |-> "sleep"]
    /\ exIds = [e \in Executors |-> {}]
    /\ co = [e \in Executors |-> [id \in 1..MaxTasks |-> NoCoroutine]]
    /\ claimed = [e \in Executors |-> {}]

\* The state after startup, for the task specification.
InitTasks == TasksIdle /\ GreedyIdle /\ DirIdle /\ CpIdle /\ ProcIdle

\* TaskCRUD.create_task (POST /api/task): insert a PENDING task under a fresh id,
\* while fewer than n requests have arrived.
CreateTaskUpTo(n) ==
    /\ Cardinality(DOMAIN tasks) < n
    /\ LET id == Cardinality(DOMAIN tasks) + 1
       IN tasks' = [i \in DOMAIN tasks \cup {id} |-> IF i = id THEN NewTask ELSE tasks[i]]
    /\ UNCHANGED <<exPc, exIds, co, claimed>>
    /\ TaskFrame

CreateTask == CreateTaskUpTo(MaxTasks)

\* The requests arriving in the fair running system.
CreateTaskFair == CreateTaskUpTo(MaxFairTasks)

\* get_pending_tasks, first store operation: the find().  An empty result returns []
\* and the loop goes back to sleep.
FindPending(e) ==
    /\ exPc[e] = "sleep"
    /\ \E batch \in PendingBatches(PROCESSOR_BATCH_SIZE) :
         /\ batch /= {}
         /\ exIds' = [exIds EXCEPT ![e] = batch]
         /\ exPc' = [exPc EXCEPT ![e] = "found"]
    /\ UNCHANGED <<tasks, co, claimed>>
    /\ TaskFrame

\* get_pending_tasks, second store operation: update_many, then return ids;
\* fetch_and_process_pending_tasks starts one process_task coroutine per id.
MarkBatch(e) ==
    /\ exPc[e] = "found"
    /\ tasks' = UpdateManyProcessing(tasks, exIds[e])
    /\ claimed' = [claimed EXCEPT ![e] = @ \cup exIds[e]]
    /\ co' = [co EXCEPT ![e] = [id \in 1..MaxTasks |->
                 IF id \in exIds[e] THEN [pc |-> "get_task", out |-> None]
                 ELSE NoCoroutine]]
    /\ exPc' = [exPc EXCEPT ![e] = "gather"]
    /\ UNCHANGED exIds
    /\ TaskFrame

\* process_task: task = await crud.get_task(id); a missing task raises before the try.
GetTask(e, id) ==
    /\ exPc[e] = "gather"
    /\ co[e][id].pc = "get_task"
    /\ co' = [co EXCEPT ![e][id].pc = IF id \in DOMAIN tasks THEN "mark" ELSE "raised"]
    /\ UNCHANGED <<tasks, exPc, exIds, claimed>>
    /\ TaskFrame

\* process_task: await crud.update_task(id, TaskStatus.PROCESSING)
MarkProcessing(e, id) ==
    /\ exPc[e] = "gather"
    /\ co[e][id].pc = "mark"
    /\ tasks' = update_task(tasks, id, PROCESSING, None, None)
    /\ co' = [co EXCEPT ![e][id].pc = "schedule"]
    /\ UNCHANGED <<exPc, exIds, claimed>>
    /\ TaskFrame

\* process_task: response = await schedule(task.request), returning or raising.
RunSchedule(e, id) ==
    /\ exPc[e] = "gather"
    /\ co[e][id].pc = "schedule"
    /\ \E out \in Outcomes : co' = [co EXCEPT ![e][id] = [pc |-> "write", out |-> out]]
    /\ UNCHANGED <<tasks, exPc, exIds, claimed>>
    /\ TaskFrame

\* The write-back of a process_task whose failure takes the batch with it: the
\* except block marks every task of the batch FAILED.
Finalize_FailsBatch(e, id) ==
    /\ exPc[e] = "gather"
    /\ co[e][id].pc = "write"
    /\ LET out == co[e][id].out
       IN /\ tasks' = IF out.kind = "return"
                      THEN update_task(tasks, id, COMPLETED, out.response, None)
                      ELSE [t \in DOMAIN tasks |->
                              IF t \in exIds[e] THEN [tasks[t] EXCEPT !.status = FAILED]
                              ELSE tasks[t]]
          /\ co' = [co EXCEPT ![e][id].pc = IF out.kind = "return" THEN "done" ELSE "raised"]
    /\ UNCHANGED <<exPc, exIds, claimed>>
    /\ TaskFrame

\* process_task: the write-back of the try block (COMPLETED) or of the except
\* block (FAILED, error_message=str(error)), after which the coroutine ends.
Finalize(e, id) ==
    /\ exPc[e] = "gather"
    /\ co[e][id].pc = "write"
    /\ LET out == co[e][id].out
       IN /\ tasks' = IF out.kind = "return"
                      THEN update_task(tasks, id, COMPLETED, out.response, None)
                      ELSE update_task(tasks, id, FAILED, None, out.msg)
          /\ co' = [co EXCEPT ![e][id].pc = IF out.kind = "return" THEN "done" ELSE "raised"]
    /\ UNCHANGED <<exPc, exIds, claimed>>
    /\ TaskFrame

\* asyncio.gather(..., return_exceptions=True) has collected every coroutine;
\* the iteration ends and the loop sleeps until the next interval.
Gathered(e) ==
    /\ exPc[e] = "gather"
    /\ \A id \in exIds[e] : co[e][id].pc \in {"done", "raised"}
    /\ exPc' = [exPc EXCEPT ![e] = "sleep"]
    /\ exIds' = [exIds EXCEPT ![e] = {}]
    /\ co' = [co EXCEPT ![e] = [id \in 1..MaxTasks |-> NoCoroutine]]
    /\ UNCHANGED <<tasks, claimed>>
    /\ TaskFrame

\* TaskProcessor.stop (or the event loop closing at shutdown): is_running = False
\* and self._task.cancel().  The CancelledError reaches the loop at its await; a
\* loop awaiting the gather has every unfinished process_task cancelled with it,
\* and CancelledError passes the `except Exception` of process_task and of the
\* loop, so no write-back runs.
Stop(e) ==
    /\ exPc[e] /= "stopped"
    /\ exPc' = [exPc EXCEPT ![e] = "stopped"]
    /\ co' = [co EXCEPT ![e] = [id \in 1..MaxTasks |->
                 IF co[e][id].pc \in {"none", "done", "raised"}
                 THEN co[e][id]
                 ELSE [co[e][id] EXCEPT !.pc = "cancelled"]]]
    /\ UNCHANGED <<tasks, exIds, claimed>>
    /\ TaskFrame

NextTasks ==
    \/ CreateTask
    \/ \E e \in Executors : FindPending(e)
    \/ \E e \in Executors : MarkBatch(e)
    \/ \E e \in Executors, id \in 1..MaxTasks : GetTask(e, id)
    \/ \E e \in Executors, id \in 1..MaxTasks : MarkProcessing(e, id)
    \/ \E e \in Executors, id \in 1..MaxTasks : RunSchedule(e, id)
    \/ \E e \in Executors, id \in 1..MaxTasks : Finalize(e, id)
    \/ \E e \in Executors : Gathered(e)
    \/ \E e \in Executors : Stop(e)

SpecTasks == InitTasks /\ [][NextTasks]_vars

\* The executors never stopped: the steps of the running system.
NextRunning ==
    \/ CreateTaskFair
    \/ \E e \in Executors : FindPending(e)
    \/ \E e \in Executors : MarkBatch(e)
    \/ \E e \in Executors, id \in 1..MaxTasks : GetTask(e, id)
    \/ \E e \in Executors, id \in 1..MaxTasks : MarkProcessing(e, id)
    \/ \E e \in Executors, id \in 1..MaxTasks : RunSchedule(e, id)
    \/ \E e \in Executors, id \in 1..MaxTasks : Finalize(e, id)
    \/ \E e \in Executors : Gathered(e)

\* One step of executor e: of its loop or of one of its process_task coroutines.
ExecutorStep(e) ==
    \/ FindPending(e)
    \/ MarkBatch(e)
    \/ Gathered(e)
    \/ \E id \in 1..MaxTasks :
          GetTask(e, id) \/ MarkProcessing(e, id) \/ RunSchedule(e, id) \/ Finalize(e, id)

\* The event loop of an executor resumes a coroutine whose awaited store
\* operation or scheduling run has finished, and every such operation finishes:
\* an executor that can step eventually steps.  A request arriving (CreateTask)
\* is not forced.
FairRunning == \A e \in Executors : WF_vars(ExecutorStep(e))

SpecTasksFair == InitTasks /\ [][NextRunning]_vars /\ FairRunning

\* get_pending_tasks raises (the store is unreachable at the find() or at the
\* update_many): the exception leaves fetch_and_process_pending_tasks and is
\* caught and logged by `except Exception` in run_processor_loop.
ClaimRaises(e) ==
    /\ exPc[e] \in {"sleep", "found"}
    /\ exPc' = [exPc EXCEPT ![e] = "caught"]
    /\ exIds' = [exIds EXCEPT ![e] = {}]
    /\ UNCHANGED <<tasks, co, claimed>>
    /\ TaskFrame

\* The except block ending the loop instead of going on to the sleep.
NextInterval_Ends(e) ==
    /\ exPc[e] = "caught"
    /\ exPc' = [exPc EXCEPT ![e] = "ended"]
    /\ UNCHANGED <<tasks, exIds, co, claimed>>
    /\ TaskFrame

\* After the except block: await asyncio.sleep(interval), then the next
\* iteration of `while self.is_running`.
NextInterval(e) ==
    /\ exPc[e] = "caught"
    /\ exPc' = [exPc EXCEPT ![e] = "sleep"]
    /\ UNCHANGED <<tasks, exIds, co, claimed>>
    /\ TaskFrame

\* The running system over a store that may fail a claim.
NextFaulty ==
    \/ CreateTaskFair
    \/ \E e \in Executors : FindPending(e)
    \/ \E e \in Executors : MarkBatch(e)
    \/ \E e \in Executors, id \in 1..MaxTasks : GetTask(e, id)
    \/ \E e \in Executors, id \in 1..MaxTasks : MarkProcessing(e, id)
    \/ \E e \in Executors, id \in 1..MaxTasks : RunSchedule(e, id)
    \/ \E e \in Executors, id \in 1..MaxTasks : Finalize(e, id)
    \/ \E e \in Executors : Gathered(e)
    \/ \E e \in Executors : ClaimRaises(e)
    \/ \E e \in Executors : NextInterval(e)

\* An executor that can step eventually steps; whether a claim raises is up to
\* the store.
FairFaulty ==
    \A e \in Executors : WF_vars(ExecutorStep(e) \/ ClaimRaises(e) \/ NextInterval(e))

SpecTasksFaulty == InitTasks /\ [][NextFaulty]_vars /\ FairFaulty

\* One executor alone on the store.
BatchExecutor == "e1"

NextBatch ==
    \/ CreateTask
    \/ FindPending(BatchExecutor)
    \/ MarkBatch(BatchExecutor)
    \/ \E id \in 1..MaxTasks : GetTask(BatchExecutor, id)
    \/ \E id \in 1..MaxTasks : MarkProcessing(BatchExecutor, id)
    \/ \E id \in 1..MaxTasks : RunSchedule(BatchExecutor, id)
    \/ \E id \in 1..MaxTasks : Finalize(BatchExecutor, id)
    \/ Gathered(BatchExecutor)

SpecBatch == InitTasks /\ [][NextBatch]_vars

\* C1: claim exclusivity: the id sets returned by get_pending_tasks calls of two
\* executors on the same store are disjoint (no task is handed to two executors).
C1_ClaimExclusivity ==
    \A e1, e2 \in Executors : e1 /= e2 => claimed[e1] \cap claimed[e2] = {}

\* C6: outcome recording: the finalising write of a processed task leaves, when
\* the pipeline returned, COMPLETED with the response stored and, when it raised
\* e, FAILED with error_message = str(e) (also when it is empty) and no response.
C6_OutcomeRecorded ==
    [][ \A e \in Executors, id \in 1..MaxTasks :
          (co[e][id].pc = "write" /\ co'[e][id].pc \in {"done", "raised"}) =>
             LET out == co[e][id].out
                 t == tasks'[id]
             IN IF out.kind = "return"
                THEN t.status = COMPLETED /\ t.response = out.response
                ELSE /\ t.status = FAILED
                     /\ t.error_message = out.msg
                     /\ t.response = None ]_vars

\* The status changes the lifecycle allows.
AllowedTransitions ==
    {<<PENDING, PROCESSING>>, <<PROCESSING, COMPLETED>>, <<PROCESSING, FAILED>>}

\* C7: status lifecycle: a task is created PENDING and its stored status only ever
\* changes PENDING -> PROCESSING -> COMPLETED | FAILED; terminal statuses are final.
C7_StatusLifecycle ==
    [][ /\ \A id \in DOMAIN tasks' \ DOMAIN tasks : tasks'[id].status = PENDING
        /\ \A id \in DOMAIN tasks :
             tasks'[id].status /= tasks[id].status
                => <<tasks[id].status, tasks'[id].status>> \in AllowedTransitions ]_vars

(***************************************************************************)
(* Greedy scheduler (app/services/scheduler/greedy_scheduler.py, with      *)
(* TripInfo and SchedulerContext of app/services/scheduler/__init__.py).   *)
(* Instants are seconds since the start of the request's day.              *)
(***************************************************************************)

\* Largest number of bookings in a request.
MaxTrips == 3
MaxRunTrips == 2
\* Values nanoid's generate() may return.
GeneratedIds == {"id1", "id2"}

\* Booked pickup instants of the bookings (seconds since midnight).
PickupInstants == {0, 300, 600}

DEFAULT_BEFORE_PICKUP_TIME == 300
DEFAULT_AFTER_PICKUP_TIME == 300
DEFAULT_DROPOFF_UNLOADING_TIME == 300

AMBULATORY == "AMBI"
WHEELCHAIR == "WC"
STRETCHER == "GUR"

Passengers == {"p1", "p2"}
Addresses == {"A", "B"}

\* MobilityAssistanceType.priority
priority(a) == IF a = STRETCHER THEN 0 ELSE IF a = WHEELCHAIR THEN 1 ELSE 2

\* MobilityAssistanceType.from_string (tags are already upper case)
from_string(s) ==
    IF s = "STRETCHER" \/ s = "GUR" THEN STRETCHER
    ELSE IF s = "WHEELCHAIR" \/ s = "WC" THEN WHEELCHAIR
    ELSE AMBULATORY

\* MobilityAssistanceType.from_strings: the first tag that is not AMBULATORY.
RECURSIVE from_strings(_)
from_strings(args) ==
    IF args = << >> THEN AMBULATORY
    ELSE IF from_string(Head(args)) /= AMBULATORY THEN from_string(Head(args))
    ELSE from_strings(Tail(args))

\* SchedulerContext: `request.<field> or DEFAULT` (None and 0 both give the default).
OrDefault(v, d) == IF v = NoInt \/ v = 0 THEN d ELSE v
before_pickup_in_sec == OrDefault(request.before_pickup_time, DEFAULT_BEFORE_PICKUP_TIME)
after_pickup_in_sec == OrDefault(request.after_pickup_time, DEFAULT_AFTER_PICKUP_TIME)
dropoff_unloading_in_sec ==
    OrDefault(request.dropoff_unloading_time, DEFAULT_DROPOFF_UNLOADING_TIME)

\* The bookings a request may carry: passenger, one assistance tag, booked pickup
\* instant, and a leg between two different addresses.
Bookings ==
    { b \in [passenger : Passengers,
             mobility_assistance : {<<"GUR">>, <<"WC">>, <<"AMBI">>},
             pickup_time : PickupInstants,
             pickup_address : Addresses,
             dropoff_address : Addresses] :
        b.pickup_address /= b.dropoff_address }

\* The optional time settings of a ScheduleRequest.
TimeSettings ==
    { [before_pickup_time |-> NoInt, after_pickup_time |-> NoInt,
       dropoff_unloading_time |-> NoInt],
      [before_pickup_time |-> 0, after_pickup_time |-> 600,
       dropoff_unloading_time |-> 60] }

\* A scheduling run takes get_direction by its signature: per (origin,
\* destination) the duration_in_sec of the Direction it returns, or no route (it
\* raises ValueError).  The cache behind it is modelled in the direction part.
NoRoute == -1
RouteTables ==
    { [k \in Addresses \X Addresses |-> 120],
      [k \in Addresses \X Addresses |-> IF k = <<"B", "A">> THEN 400 ELSE 120],
      [k \in Addresses \X Addresses |-> IF k = <<"B", "A">> THEN NoRoute ELSE 120] }

\* TripInfo.latest_pickup_time
latest_pickup_time(t) ==
    IF t.is_last THEN t.pickup_time + after_pickup_in_sec ELSE t.pickup_time

\* TripInfo.dropoff_time
dropoff_time(t) ==
    (IF t.adjusted_pickup_time /= NoInt THEN t.adjusted_pickup_time ELSE t.pickup_time)
        + t.duration_in_sec

\* TripInfo.finish_time
finish_time(t) == dropoff_time(t) + dropoff_unloading_in_sec

\* TripInfo.__init__ with _get_trips_from_bookings' earliest_arrival_time.
NewTripInfo(b, duration) ==
    [passenger |-> b.passenger,
     assistance |-> from_strings(b.mobility_assistance),
     pickup_time |-> b.pickup_time,
     pickup_address |-> b.pickup_address,
     dropoff_address |-> b.dropoff_address,
     duration_in_sec |-> duration,
     is_last |-> FALSE,
     adjusted_pickup_time |-> NoInt,
     earliest_arrival_time |-> b.pickup_time - before_pickup_in_sec]

\* list.sort(key=pickup_time): a stable sort of a list of booking indices.
RECURSIVE InsertSorted(_, _, _)
InsertSorted(sorted, x, tr) ==
    IF sorted = << >> THEN <<x>>
    ELSE IF tr[sorted[Len(sorted)]].pickup_time <= tr[x].pickup_time
         THEN Append(sorted, x)
         ELSE Append(InsertSorted(SubSeq(sorted, 1, Len(sorted) - 1), x, tr),
                     sorted[Len(sorted)])

RECURSIVE SortByPickup(_, _)
SortByPickup(list, tr) ==
    IF list = << >> THEN << >>
    ELSE InsertSorted(SortByPickup(SubSeq(list, 1, Len(list) - 1), tr),
                      list[Len(list)], tr)

\* reversed(list)
Reversed(list) == [i \in 1..Len(list) |-> list[Len(list) + 1 - i]]

\* passenger_trips[p] of _mark_last_leg: p's trips, latest first.
PassengerTripList(sorted, tr, p) ==
    LET rev == Reversed(sorted)
        IsP(i) == tr[i].passenger = p
    IN SelectSeq(rev, IsP)

\* The marking loop of _mark_last_leg over a sorted list.
MarkedTrips(sorted, tr) ==
    [i \in DOMAIN tr |->
        LET l == PassengerTripList(sorted, tr, tr[i].passenger)
        IN IF Len(l) > 1
           THEN [tr[i] EXCEPT
                   !.is_last = IF i = l[Len(l)] THEN TRUE ELSE @,
                   !.earliest_arrival_time = IF i = l[1] THEN tr[i].pickup_time ELSE @]
           ELSE tr[i]]

\* _get_priority_trips filing a trip under every bucket of its priority or lower
\* (<= in place of the index lookup).
Bucket_UpTo(list, tr, prio) ==
    LET InBucket(i) == priority(tr[i].assistance) <= prio
    IN SelectSeq(list, InBucket)

\* _get_priority_trips filing the trips under the buckets in inverted order
\* (index 2 - priority).
Bucket_Inverted(list, tr, prio) ==
    LET InBucket(i) == 2 - priority(tr[i].assistance) = prio
    IN SelectSeq(list, InBucket)

\* One bucket of _get_priority_trips.
Bucket(list, tr, prio) ==
    LET InBucket(i) == priority(tr[i].assistance) = prio
    IN SelectSeq(list, InBucket)

\* GreedyScheduler._is_better
is_better(coming, current, trip) ==
    IF trip.is_last
    THEN IF current > trip.pickup_time THEN coming < current ELSE coming > current
    ELSE IF current > trip.pickup_time - before_pickup_in_sec
         THEN coming < current
         ELSE coming > current

\* _is_trip_fit without the comparison of the estimated arrival against the
\* latest pickup time of the next trip.
is_trip_fit_NoArrivalCheck(shuttle, next_trip, tr) ==
    LET last_trip == tr[shuttle.trips[Len(shuttle.trips)]]
        direction == routes[<<last_trip.dropoff_address, next_trip.pickup_address>>]
    IN IF finish_time(last_trip) > latest_pickup_time(next_trip)
       THEN [kind |-> "none", arrival |-> NoInt]
       ELSE IF last_trip.dropoff_address = next_trip.pickup_address
       THEN [kind |-> "fit", arrival |-> finish_time(last_trip)]
       ELSE IF direction = NoRoute
       THEN [kind |-> "raise", arrival |-> NoInt]
       ELSE [kind |-> "fit", arrival |-> finish_time(last_trip) + direction]

\* GreedyScheduler._is_trip_fit: the estimated arrival, None, or the ValueError
\* get_direction raises when it finds no route.
is_trip_fit(shuttle, next_trip, tr) ==
    LET last_trip == tr[shuttle.trips[Len(shuttle.trips)]]
        direction == routes[<<last_trip.dropoff_address, next_trip.pickup_address>>]
    IN IF finish_time(last_trip) > latest_pickup_time(next_trip)
       THEN [kind |-> "none", arrival |-> NoInt]
       ELSE IF last_trip.dropoff_address = next_trip.pickup_address
       THEN [kind |-> "fit", arrival |-> finish_time(last_trip)]
       ELSE IF direction = NoRoute
       THEN [kind |-> "raise", arrival |-> NoInt]
       ELSE IF finish_time(last_trip) + direction > latest_pickup_time(next_trip)
       THEN [kind |-> "none", arrival |-> NoInt]
       ELSE [kind |-> "fit", arrival |-> finish_time(last_trip) + direction]

\* The `for vehicle in plan` loop of _schedule_trips from position i on, with
\* the best shuttle (0: none yet) and its arrival found so far.
RECURSIVE ScanPlan(_, _, _, _, _)
ScanPlan(p, trip, tr, i, best) ==
    IF i > Len(p) THEN best
    ELSE LET r == is_trip_fit(p[i], trip, tr)
         IN IF r.kind = "raise" THEN [kind |-> "raise", shuttle |-> 0, arrival |-> NoInt]
            ELSE IF r.kind = "none" THEN ScanPlan(p, trip, tr, i + 1, best)
            ELSE IF best.shuttle = 0 \/ is_better(r.arrival, best.arrival, trip)
                 THEN ScanPlan(p, trip, tr, i + 1,
                               [kind |-> "ok", shuttle |-> i, arrival |-> r.arrival])
                 ELSE ScanPlan(p, trip, tr, i + 1, best)

\* The buckets handed to _schedule_trips from the lowest priority to the highest.
ScheduleOrder_LowestFirst == priority_trips[3] \o priority_trips[2] \o priority_trips[1]

\* The trips in the order _calculate hands them to _schedule_trips.
ScheduleOrder == priority_trips[1] \o priority_trips[2] \o priority_trips[3]

\* A ScheduleRequest is being put together: its time settings are fixed, its
\* booking list is still empty.
InitGreedy ==
    /\ TasksIdle
    /\ DirIdle
    /\ CpIdle
    /\ ProcIdle
    /\ \E ts \in TimeSettings :
         request = [bookings |-> << >>,
                    before_pickup_time |-> ts.before_pickup_time,
                    after_pickup_time |-> ts.after_pickup_time,
                    dropoff_unloading_time |-> ts.dropoff_unloading_time]
    /\ routes \in RouteTables
    /\ gpc = "start"
    /\ trips = << >>
    /\ all_trips = << >>
    /\ priority_trips = <<<< >>, << >>, << >>>>
    /\ cursor = 0
    /\ plan = << >>
    /\ responses = NoResponses

\* The request gets one more booking.  After _mark_last_leg's sort the input
\* order is never read again, and every sorted list is the stable sort of a list
\* in non-increasing pickup order, so the lists are built in that order; the
\* first booking's passenger is "p1" (passenger names are interchangeable).
AddBookingUpTo(limit) ==
    /\ gpc = "start"
    /\ Len(request.bookings) < limit
    /\ \E b \in Bookings :
         /\ LET n == Len(request.bookings)
            IN IF n = 0 THEN b.passenger = "p1"
               ELSE b.pickup_time <= request.bookings[n].pickup_time
         /\ request' = [request EXCEPT !.bookings = Append(@, b)]
    /\ UNCHANGED <<routes, gpc, trips, all_trips, priority_trips, cursor, plan>>
    /\ UNCHANGED responses
    /\ GreedyFrame

AddBooking == AddBookingUpTo(MaxTrips)

\* schedule() is called with the request; _get_trips_from_bookings makes one
\* TripInfo per booking; a booking whose own leg has no route raises and the
\* request fails.
GetTripsFromBookings ==
    /\ gpc = "start"
    /\ LET bs == request.bookings
           Leg(i) == routes[<<bs[i].pickup_address, bs[i].dropoff_address>>]
       IN IF \E i \in 1..Len(bs) : Leg(i) = NoRoute
          THEN /\ gpc' = "failed"
               /\ UNCHANGED <<trips, all_trips>>
          ELSE /\ trips' = [i \in 1..Len(bs) |-> NewTripInfo(bs[i], Leg(i))]
               /\ all_trips' = [i \in 1..Len(bs) |-> i]
               /\ gpc' = "trips"
    /\ UNCHANGED <<request, routes, priority_trips, cursor, plan>>
    /\ UNCHANGED responses
    /\ GreedyFrame

\* _mark_last_leg: sort all_trips by pickup time, then mark per passenger.
MarkLastLeg ==
    /\ gpc = "trips"
    /\ LET sorted == SortByPickup(all_trips, trips)
       IN /\ all_trips' = sorted
          /\ trips' = MarkedTrips(sorted, trips)
    /\ gpc' = "marked"
    /\ UNCHANGED <<request, routes, priority_trips, cursor, plan>>
    /\ UNCHANGED responses
    /\ GreedyFrame

\* _get_priority_trips
GetPriorityTrips ==
    /\ gpc = "marked"
    /\ priority_trips' = [prio \in 1..3 |-> Bucket(all_trips, trips, prio - 1)]
    /\ gpc' = "schedule"
    /\ UNCHANGED <<request, routes, trips, all_trips, cursor, plan>>
    /\ UNCHANGED responses
    /\ GreedyFrame

\* _schedule_trips without the delay: the adjusted pickup time is always the
\* booked one.
ScheduleTrip_NoDelay ==
    /\ gpc = "schedule"
    /\ cursor < Len(ScheduleOrder)
    /\ LET t == ScheduleOrder[cursor + 1]
           trip == trips[t]
           best == ScanPlan(plan, trip, trips, 1,
                            [kind |-> "ok", shuttle |-> 0, arrival |-> NoInt])
       IN IF best.kind = "raise"
          THEN /\ gpc' = "failed"
               /\ UNCHANGED <<trips, plan, cursor>>
          ELSE /\ plan' = IF best.shuttle = 0
                          THEN Append(plan, [idx |-> Len(plan) + 1, trips |-> <<t>>])
                          ELSE [plan EXCEPT ![best.shuttle].trips = Append(@, t)]
               /\ trips' = [trips EXCEPT
                    ![t].earliest_arrival_time =
                        IF best.shuttle = 0 THEN @ ELSE best.arrival,
                    ![t].adjusted_pickup_time = trip.pickup_time]
               /\ cursor' = cursor + 1
               /\ gpc' = gpc
    /\ UNCHANGED <<request, routes, all_trips, priority_trips>>
    /\ UNCHANGED responses
    /\ GreedyFrame

\* One iteration of `for trip in trips` in _schedule_trips: scan the plan, add the
\* trip to the best shuttle or to a new one, set its adjusted pickup time.  A
\* ValueError of get_direction ends the run.
ScheduleTrip ==
    /\ gpc = "schedule"
    /\ cursor < Len(ScheduleOrder)
    /\ LET t == ScheduleOrder[cursor + 1]
           trip == trips[t]
           best == ScanPlan(plan, trip, trips, 1,
                            [kind |-> "ok", shuttle |-> 0, arrival |-> NoInt])
       IN IF best.kind = "raise"
          THEN /\ gpc' = "failed"
               /\ UNCHANGED <<trips, plan, cursor>>
          ELSE /\ plan' = IF best.shuttle = 0
                          THEN Append(plan, [idx |-> Len(plan) + 1, trips |-> <<t>>])
                          ELSE [plan EXCEPT ![best.shuttle].trips = Append(@, t)]
               /\ trips' = [trips EXCEPT
                    ![t].earliest_arrival_time =
                        IF best.shuttle = 0 THEN @ ELSE best.arrival,
                    ![t].adjusted_pickup_time =
                        IF best.arrival = NoInt \/ best.arrival < trip.pickup_time
                        THEN trip.pickup_time
                        ELSE best.arrival]
               /\ cursor' = cursor + 1
               /\ gpc' = gpc
    /\ UNCHANGED <<request, routes, all_trips, priority_trips>>
    /\ UNCHANGED responses
    /\ GreedyFrame

\* _calculate returns [shuttle.to_shuttle() for shuttle in plan].
ReturnPlan ==
    /\ gpc = "schedule"
    /\ cursor = Len(ScheduleOrder)
    /\ gpc' = "done"
    /\ UNCHANGED <<request, routes, trips, all_trips, priority_trips, cursor, plan>>
    /\ UNCHANGED responses
    /\ GreedyFrame

NextGreedy ==
    \/ AddBooking
    \/ GetTripsFromBookings
    \/ MarkLastLeg
    \/ GetPriorityTrips
    \/ ScheduleTrip
    \/ ReturnPlan

SpecGreedy == InitGreedy /\ [][NextGreedy]_vars

\* ShuttleInfo.to_shuttle: the trips, the name f"{idx}{assistance of the first
\* trip}" and the id handed in, which the code draws from nanoid's generate().
to_shuttle(shuttle, shuttle_id) ==
    [trips |-> [k \in DOMAIN shuttle.trips |-> trips[shuttle.trips[k]]],
     shuttle_name |-> <<shuttle.idx, trips[shuttle.trips[1]].assistance>>,
     shuttle_id |-> shuttle_id]

\* One run of the pipeline on the request returns.  Up to the plan a run is a
\* function of the request and of the routes, so every run builds this plan; in
\* `return [shuttle.to_shuttle() for shuttle in plan]` each shuttle then gets an
\* id generated for this run.
ToShuttles(run) ==
    /\ gpc = "done"
    /\ responses[run] = << >>
    /\ \E ids \in [DOMAIN plan -> GeneratedIds] :
         responses' = [responses EXCEPT ![run] =
                         [error_code |-> 0,
                          status |-> "success",
                          vehicle_trip_list |->
                              [s \in DOMAIN plan |-> to_shuttle(plan[s], ids[s])]]]
    /\ UNCHANGED <<request, routes, gpc, trips, all_trips, priority_trips, cursor, plan>>
    /\ GreedyFrame

\* The requests of the specification that runs the pipeline twice.
AddBookingRun == AddBookingUpTo(MaxRunTrips)

NextRuns ==
    \/ AddBookingRun
    \/ GetTripsFromBookings
    \/ MarkLastLeg
    \/ GetPriorityTrips
    \/ ScheduleTrip
    \/ ReturnPlan
    \/ \E run \in Runs : ToShuttles(run)

\* A request scheduled once by POST /api/schedule and once as a task.
SpecRuns == InitGreedy /\ [][NextRuns]_vars

\* Number of places (shuttle, position) of the plan that hold trip i.
Placements(i) ==
    Cardinality({ sk \in { <<s, k>> : s \in 1..Len(plan), k \in 1..MaxTrips } :
                    /\ sk[2] <= Len(plan[sk[1]].trips)
                    /\ plan[sk[1]].trips[sk[2]] = i })

\* C2: in a returned greedy plan every booking of the request appears in exactly
\* one shuttle's trip list, once: none is dropped, none is placed twice.
C2_EveryBookingOnce ==
    gpc = "done" => \A i \in 1..Len(request.bookings) : Placements(i) = 1

\* A returned plan of three bookings on two shuttles (one shuttle has two trips).
C2_Witness ==
    /\ gpc = "done"
    /\ Len(request.bookings) = 3
    /\ Len(plan) = 2

\* Travel time between two consecutive trips of a shuttle: zero at the same
\* address, else the duration get_direction gave.
Travel(from, to) == IF from = to THEN 0 ELSE routes[<<from, to>>]

\* C3: in a returned greedy plan, for consecutive trips a, b of a shuttle,
\* finish_time(a) + travel(a.dropoff, b.pickup) <= latest_pickup_time(b), with a
\* route existing whenever the two addresses differ.
C3_ConsecutiveFit ==
    gpc = "done" =>
        \A s \in 1..Len(plan) : \A k \in 1..(Len(plan[s].trips) - 1) :
            LET a == trips[plan[s].trips[k]]
                b == trips[plan[s].trips[k + 1]]
            IN /\ a.dropoff_address /= b.pickup_address
                    => routes[<<a.dropoff_address, b.pickup_address>>] /= NoRoute
               /\ finish_time(a) + Travel(a.dropoff_address, b.pickup_address)
                    <= latest_pickup_time(b)

\* A returned plan in which a shuttle drives from one trip's dropoff to the next
\* trip's different pickup address.
C3_Witness ==
    /\ gpc = "done"
    /\ \E s \in 1..Len(plan) : \E k \in 1..(Len(plan[s].trips) - 1) :
          trips[plan[s].trips[k]].dropoff_address
              /= trips[plan[s].trips[k + 1]].pickup_address

\* The trips of passenger p.
TripsOf(p) == {i \in DOMAIN trips : trips[i].passenger = p}

\* C4: after _mark_last_leg, a passenger with two or more trips has exactly one
\* trip with is_last, and it is one with the latest pickup instant; the trip of a
\* passenger with a single trip is not marked.
C4_LastLegIsLatest ==
    gpc \in {"marked", "schedule", "done", "failed"} =>
        \A p \in Passengers :
            IF Cardinality(TripsOf(p)) >= 2
            THEN /\ Cardinality({i \in TripsOf(p) : trips[i].is_last}) = 1
                 /\ \A i \in TripsOf(p) : trips[i].is_last =>
                       \A j \in TripsOf(p) : trips[j].pickup_time <= trips[i].pickup_time
            ELSE \A i \in TripsOf(p) : ~trips[i].is_last

\* Trip i is not the chronologically last trip of its passenger.
HasLaterTrip(i) ==
    \E j \in TripsOf(trips[i].passenger) : trips[j].pickup_time > trips[i].pickup_time

\* C5: in a returned greedy plan every trip has adjusted_pickup_time >= pickup_time;
\* a trip that is not its passenger's chronologically last one is not delayed at
\* all, and a chronologically last one by at most after_pickup_in_sec.
C5_DelayBound ==
    gpc = "done" =>
        \A i \in DOMAIN trips :
            /\ trips[i].adjusted_pickup_time >= trips[i].pickup_time
            /\ HasLaterTrip(i) => trips[i].adjusted_pickup_time = trips[i].pickup_time
            /\ ~HasLaterTrip(i) =>
                  trips[i].adjusted_pickup_time <= trips[i].pickup_time + after_pickup_in_sec

(***************************************************************************)
(* Direction cache: DirectionCRUD (app/models/direction.py), the fetch     *)
(* get_direction (app/services/direction.py, and its earlier copy          *)
(* app/services/direction_service.py) and the TTL index of the store       *)
(* (app/services/database.py).                                             *)
(***************************************************************************)

\* Lifetime of a cache entry in seconds (the environment may override it).
DIRECTION_CACHE_TTL_SECONDS == 3600

\* The clock advances in half-TTL steps.
MaxClockSteps == 3
ClockInstants == {1800 * k : k \in 0..MaxClockSteps}

\* The two get_direction functions of the repository; they differ in the
\* direction_data they build.
Paths == {"services/direction", "services/direction_service"}

\* Legs the routing provider can answer with.
Legs == {[distance |-> 5000, duration |-> 600], [distance |-> 5200, duration |-> 900]}

\* gmaps.directions(...): a list of routes (possibly empty), or an ApiError.
ProviderOutcomes ==
    {[kind |-> "routes", directions |-> <<l>>] : l \in Legs}
        \cup {[kind |-> "routes", directions |-> << >>],
              [kind |-> "ApiError", directions |-> << >>]}

\* DirectionCRUD.generate_key
generate_key(origin, destination) == origin \o "|" \o destination

\* DirectionCRUD.get_direction: the dict of the stored document, or None (<< >>).
DirectionCRUD_get_direction(collection, origin, destination) ==
    LET found == {doc \in collection : doc.key = generate_key(origin, destination)}
    IN IF found = {} THEN << >>
       ELSE LET doc == CHOOSE d \in found : TRUE
            IN <<[distance_in_meter |-> doc.distance_in_meter,
                  duration_in_seconds |-> doc.duration_in_seconds]>>

\* create_direction as a plain insert: the document of the key already stored
\* stays next to the new one.
DirectionCRUD_create_direction_Insert(collection, origin, destination, data, t) ==
    LET key == generate_key(origin, destination)
    IN IF {"distance_in_meter", "duration_in_seconds"} \subseteq DOMAIN data
       THEN [raised |-> "",
             collection |-> collection
                 \cup {[key |-> key,
                        distance_in_meter |-> data.distance_in_meter,
                        duration_in_seconds |-> data.duration_in_seconds,
                        created_at |-> t]}]
       ELSE [raised |-> "KeyError", collection |-> collection]

\* DirectionCRUD.create_direction at time t: the upsert, or the KeyError of
\* data["distance_in_meter"] / data["duration_in_seconds"].
DirectionCRUD_create_direction(collection, origin, destination, data, t) ==
    LET key == generate_key(origin, destination)
    IN IF {"distance_in_meter", "duration_in_seconds"} \subseteq DOMAIN data
       THEN [raised |-> "",
             collection |-> {doc \in collection : doc.key /= key}
                 \cup {[key |-> key,
                        distance_in_meter |-> data.distance_in_meter,
                        duration_in_seconds |-> data.duration_in_seconds,
                        created_at |-> t]}]
       ELSE [raised |-> "KeyError", collection |-> collection]

\* The direction_data dict get_direction builds from the provider's first leg.
direction_data(via, routes_found) ==
    LET leg == routes_found[1]
    IN IF via = "services/direction"
       THEN [distance_in_meter |-> leg.distance,
             duration_in_sec |-> leg.duration,
             raw_response |-> routes_found]
       ELSE [distance_in_meter |-> leg.distance,
             duration_in_seconds |-> leg.duration,
             raw_response |-> routes_found]

\* Direction(**data): the model, or << >> for the ValidationError of a missing
\* required field (extra keys are ignored).
Direction(data) ==
    IF {"distance_in_meter", "duration_in_seconds"} \subseteq DOMAIN data
    THEN <<[distance_in_meter |-> data.distance_in_meter,
            duration_in_seconds |-> data.duration_in_seconds]>>
    ELSE << >>

\* The TTL index with expireAfterSeconds taken for milliseconds.
Expired_Millis(doc, t) == doc.created_at + DIRECTION_CACHE_TTL_SECONDS * 1000 < t

\* The TTL index: a document is expired at time t.
Expired(doc, t) == doc.created_at + DIRECTION_CACHE_TTL_SECONDS < t

InitDirections == TasksIdle /\ GreedyIdle /\ DirIdle /\ CpIdle /\ ProcIdle

\* A caller enters get_direction(origin, destination).
Fetch(c) ==
    /\ fetchers[c].pc \in {"idle", "returned", "raised"}
    /\ \E via \in Paths, origin \in Addresses, destination \in Addresses :
         /\ origin /= destination
         /\ fetchers' = [fetchers EXCEPT ![c] =
                [NoFetch EXCEPT !.pc = "lookup", !.via = via,
                                !.origin = origin, !.destination = destination]]
    /\ UNCHANGED <<directions, now, reaper>>
    /\ DirFrame

\* cached_direction = await crud.get_direction(origin, destination)
Lookup(c) ==
    /\ fetchers[c].pc = "lookup"
    /\ fetchers' = [fetchers EXCEPT ![c].pc = "looked",
                       ![c].cached = DirectionCRUD_get_direction(
                           directions, fetchers[c].origin, fetchers[c].destination)]
    /\ UNCHANGED <<directions, now, reaper>>
    /\ DirFrame

\* if cached_direction: return Direction(**cached_direction)
ReturnCached(c) ==
    /\ fetchers[c].pc = "looked"
    /\ fetchers[c].cached /= << >>
    /\ fetchers' = [fetchers EXCEPT ![c].pc = "returned",
                       ![c].result = Direction(fetchers[c].cached[1])]
    /\ UNCHANGED <<directions, now, reaper>>
    /\ DirFrame

\* The miss with the empty answer written to the cache as an entry of zero
\* distance and duration before the ValueError.
CallProvider_CacheEmpty(c) ==
    /\ fetchers[c].pc = "looked"
    /\ fetchers[c].cached = << >>
    /\ \E out \in ProviderOutcomes :
         /\ fetchers' = [fetchers EXCEPT ![c] =
               IF out.kind = "ApiError"
               THEN [@ EXCEPT !.pc = "raised", !.called = TRUE, !.error = "ApiError"]
               ELSE IF out.directions = << >>
               THEN [@ EXCEPT !.pc = "raised", !.called = TRUE, !.error = "ValueError"]
               ELSE [@ EXCEPT !.pc = "store", !.called = TRUE,
                              !.provided = out.directions,
                              !.data = <<direction_data(fetchers[c].via, out.directions)>>]]
         /\ directions' =
               IF out.kind = "routes" /\ out.directions = << >>
               THEN DirectionCRUD_create_direction(directions, fetchers[c].origin,
                        fetchers[c].destination,
                        [distance_in_meter |-> 0, duration_in_seconds |-> 0], now).collection
               ELSE directions
    /\ UNCHANGED <<now, reaper>>
    /\ DirFrame

\* The miss: the blocking gmaps.directions call, then ValueError on an empty
\* answer or direction_data from the first leg.
CallProvider(c) ==
    /\ fetchers[c].pc = "looked"
    /\ fetchers[c].cached = << >>
    /\ \E out \in ProviderOutcomes :
         fetchers' = [fetchers EXCEPT ![c] =
            IF out.kind = "ApiError"
            THEN [@ EXCEPT !.pc = "raised", !.called = TRUE, !.error = "ApiError"]
            ELSE IF out.directions = << >>
            THEN [@ EXCEPT !.pc = "raised", !.called = TRUE, !.error = "ValueError"]
            ELSE [@ EXCEPT !.pc = "store", !.called = TRUE,
                           !.provided = out.directions,
                           !.data = <<direction_data(fetchers[c].via, out.directions)>>]]
    /\ UNCHANGED <<directions, now, reaper>>
    /\ DirFrame

\* await crud.create_direction(origin, destination, direction_data)
Store(c) ==
    /\ fetchers[c].pc = "store"
    /\ LET r == DirectionCRUD_create_direction(directions, fetchers[c].origin,
                    fetchers[c].destination, fetchers[c].data[1], now)
       IN /\ directions' = r.collection
          /\ fetchers' = [fetchers EXCEPT ![c] =
                IF r.raised /= ""
                THEN [@ EXCEPT !.pc = "raised", !.error = r.raised]
                ELSE [@ EXCEPT !.pc = "stored"]]
    /\ UNCHANGED <<now, reaper>>
    /\ DirFrame

\* return Direction(**direction_data)
ReturnFetched(c) ==
    /\ fetchers[c].pc = "stored"
    /\ LET d == Direction(fetchers[c].data[1])
       IN fetchers' = [fetchers EXCEPT ![c] =
             IF d = << >>
             THEN [@ EXCEPT !.pc = "raised", !.error = "ValidationError"]
             ELSE [@ EXCEPT !.pc = "returned", !.result = d]]
    /\ UNCHANGED <<directions, now, reaper>>
    /\ DirFrame

\* Time passes.
Tick ==
    /\ \E t \in ClockInstants :
         /\ t > now
         /\ \A u \in ClockInstants : u > now => t <= u
         /\ now' = t
    /\ UNCHANGED <<directions, fetchers, reaper>>
    /\ DirFrame

\* A pass of the store's background TTL monitor over the created_at index.
Reaper ==
    /\ reaper.at /= now
    /\ directions' = {doc \in directions : ~Expired(doc, now)}
    /\ reaper' = [at |-> now,
                  removed |-> {doc.key : doc \in {d \in directions : Expired(d, now)}}]
    /\ UNCHANGED <<now, fetchers>>
    /\ DirFrame

NextDirections ==
    \/ \E c \in Callers : Fetch(c)
    \/ \E c \in Callers : Lookup(c)
    \/ \E c \in Callers : ReturnCached(c)
    \/ \E c \in Callers : CallProvider(c)
    \/ \E c \in Callers : Store(c)
    \/ \E c \in Callers : ReturnFetched(c)
    \/ Tick
    \/ Reaper

SpecDirections == InitDirections /\ [][NextDirections]_vars

\* What a fetch returns for the leg the provider answered with.
Fetched(c) ==
    <<[distance_in_meter |-> fetchers[c].provided[1].distance,
       duration_in_seconds |-> fetchers[c].provided[1].duration]>>

\* C8: get_direction of app/services/direction.py returns the stored (meters,
\* seconds) on a hit without calling the provider; on a miss with a non-empty
\* provider answer it stores the entry, so that a lookup of the same key right
\* after is a hit with the same values, and returns those values; on a miss with
\* an empty provider answer it fails with the no-route ValueError and stores
\* nothing.
C8_FetchContract ==
    [][ \A c \in Callers : fetchers[c].via = "services/direction" =>
          /\ (/\ fetchers[c].pc = "looked"
              /\ fetchers[c].cached /= << >>
              /\ fetchers'[c].pc /= "looked")
                => /\ fetchers'[c].pc = "returned"
                   /\ fetchers'[c].result = fetchers[c].cached
                   /\ ~fetchers'[c].called
          /\ (fetchers[c].pc = "store" /\ fetchers'[c].pc /= "store")
                => /\ fetchers'[c].pc = "stored"
                   /\ DirectionCRUD_get_direction(directions', fetchers[c].origin,
                          fetchers[c].destination) = Fetched(c)
          /\ (fetchers[c].pc = "stored" /\ fetchers'[c].pc /= "stored")
                => /\ fetchers'[c].pc = "returned"
                   /\ fetchers'[c].result = Fetched(c)
          /\ (/\ fetchers[c].pc = "looked"
              /\ fetchers'[c].pc = "raised"
              /\ fetchers'[c].error /= "ApiError")
                => /\ fetchers'[c].error = "ValueError"
                   /\ directions' = directions
      ]_vars

\* C9 as claimed: a lookup never returns an entry older than
\* DIRECTION_CACHE_TTL_SECONDS (a read later than t0 + TTL is a miss).
C9_NoExpiredRead ==
    [][ \A c \in Callers :
          (/\ fetchers[c].pc = "lookup"
           /\ fetchers'[c].pc = "looked"
           /\ fetchers'[c].cached /= << >>)
            => \A doc \in directions :
                  doc.key = generate_key(fetchers[c].origin, fetchers[c].destination)
                    => now <= doc.created_at + DIRECTION_CACHE_TTL_SECONDS
      ]_vars

\* C9 amended: a lookup returns an entry written at t0 at a time later than
\* t0 + TTL only as long as the store's TTL monitor has made no pass after
\* t0 + TTL; from that pass on the lookup is a miss.
C9_ExpiredReadOnlyBeforeReaper ==
    [][ \A c \in Callers :
          (/\ fetchers[c].pc = "lookup"
           /\ fetchers'[c].pc = "looked"
           /\ fetchers'[c].cached /= << >>)
            => \A doc \in directions :
                  doc.key = generate_key(fetchers[c].origin, fetchers[c].destination)
                    => \/ now <= doc.created_at + DIRECTION_CACHE_TTL_SECONDS
                       \/ reaper.at = NoInt
                       \/ reaper.at <= doc.created_at + DIRECTION_CACHE_TTL_SECONDS
      ]_vars

\* A lookup that missed the key whose expired entry the last TTL pass removed.
C9_Witness ==
    \E c \in Callers :
        /\ fetchers[c].pc = "looked"
        /\ fetchers[c].cached = << >>
        /\ generate_key(fetchers[c].origin, fetchers[c].destination) \in reaper.removed
        /\ reaper.at = now

\* C10: of the concurrent fetches of one key that all missed, at most one has
\* called the provider; the others take the winner's result.
C10_SingleFlight ==
    \A c1, c2 \in Callers :
        (/\ c1 /= c2
         /\ fetchers[c1].origin = fetchers[c2].origin
         /\ fetchers[c1].destination = fetchers[c2].destination
         /\ fetchers[c1].pc \in {"store", "stored"}
         /\ fetchers[c2].pc \in {"store", "stored"})
          => ~(fetchers[c1].called /\ fetchers[c2].called)

(***************************************************************************)
(* The constraint-programming scheduler: ORToolsScheduler behind            *)
(* POST /api/schedule.                                                      *)
(***************************************************************************)

\* Largest number of bookings in a request with optimization.
MaxCpBookings == 2

\* Booked pickup instants of these bookings (seconds since midnight).
CpPickupInstants == {0, 120}

\* MobilityAssistanceType.compatible: self is the vehicle's type.
compatible(self, bookingType) == self = bookingType \/ bookingType = AMBULATORY

\* The program store: program id -> its vehicles, each with the assistance type
\* it carries.
Programs ==
    [empty |-> << >>,
     one |-> <<[id |-> "v1", name |-> "Van 1", assistance |-> AMBULATORY]>>,
     mixed |-> <<[id |-> "v1", name |-> "Van 1", assistance |-> WHEELCHAIR],
                 [id |-> "v2", name |-> "Van 2", assistance |-> AMBULATORY]>>,
     special |-> <<[id |-> "v1", name |-> "Van 1", assistance |-> STRETCHER],
                   [id |-> "v2", name |-> "Van 2", assistance |-> WHEELCHAIR]>>]

\* The addresses and the legs of the bookings of a request with optimization.
CpAddresses == {"A", "B", "C"}
CpLegs == {<<"A", "B">>, <<"C", "A">>}

\* The bookings of a request with optimization.
CpBookings ==
    { [passenger |-> p, mobility_assistance |-> m, pickup_time |-> t,
       pickup_address |-> leg[1], dropoff_address |-> leg[2]] :
        p \in Passengers, m \in {<<"WC">>, <<"AMBI">>}, t \in CpPickupInstants,
        leg \in CpLegs }

\* Optimization: the flags the constraints and objectives read.
Optimizations ==
    [chain_bookings_for_same_passenger : BOOLEAN, minimize_vehicles : {TRUE}]

\* What get_direction yields for these requests: a booked leg takes a minute,
\* the way between two other addresses less than a minute, the way from an
\* address to itself no time; the ways out of "B" may take six minutes, or the
\* way from "B" to "A" may have no route.
CpRoute(k) ==
    IF k[1] = k[2] THEN 0 ELSE IF k \in CpLegs THEN 60 ELSE 59
CpRouteTables ==
    { [k \in CpAddresses \X CpAddresses |-> CpRoute(k)],
      [k \in CpAddresses \X CpAddresses |->
          IF k \in {<<"B", "A">>, <<"B", "C">>} THEN 400 ELSE CpRoute(k)],
      [k \in CpAddresses \X CpAddresses |->
          IF k = <<"B", "A">> THEN NoRoute ELSE CpRoute(k)] }

\* SchedulerContext.datetime_to_minutes: minutes since midnight.
datetime_to_minutes(seconds) == seconds \div 60

\* BookingInfo.create; booking_id is the booking's place in the request.
NewBookingInfo(j, b, duration_in_sec) ==
    [booking_id |-> j,
     passenger |-> b.passenger,
     assistance |-> from_strings(b.mobility_assistance),
     pickup_address |-> b.pickup_address,
     dropoff_address |-> b.dropoff_address,
     from_time_in_minutes |-> datetime_to_minutes(b.pickup_time),
     duration_in_minutes |-> duration_in_sec \div 60]

\* The index pairs (vehicle i, booking j) of the decision variables.
VehicleIndices == 1..Len(vehicles)
BookingIndices == 1..Len(bookings)
Pairs == VehicleIndices \X BookingIndices

\* The pairs an assignment sets.
Assigned(a) == {p \in Pairs : a[p]}

\* "Each booking must be assigned to exactly one vehicle" with a bound of at
\* most one.
CoverConstraint_AtMostOne(a) ==
    \A j \in BookingIndices :
        Cardinality({i \in VehicleIndices : a[<<i, j>>]}) <= 1

\* model.Add(sum(assignments[i, j] for i in range(num_vehicles)) == 1) for every
\* booking j; with no vehicle the sum is the integer 0 and the constraint false.
CoverConstraint(a) ==
    \A j \in BookingIndices :
        Cardinality({i \in VehicleIndices : a[<<i, j>>]}) = 1

\* The compatibility constraints left out.
CompatibilityConstraint_Unenforced(a) == TRUE

\* model.Add(vehicles[i].assistance.compatible(booking j's assistance))
\*     .OnlyEnforceIf(assignments[i, j])
CompatibilityConstraint(a) ==
    \A p \in Pairs :
        a[p] => compatible(vehicles[p[1]].assistance, bookings[p[2]].assistance)

\* model.Add(assignments[i, j] == assignments[i, k]) for two bookings of one
\* passenger, when chain_bookings_for_same_passenger is set.
ChainConstraint(a) ==
    request.optimization.chain_bookings_for_same_passenger =>
        \A i \in VehicleIndices : \A j, k \in BookingIndices :
            (j /= k /\ bookings[j].passenger = bookings[k].passenger)
                => a[<<i, j>>] = a[<<i, k>>]

\* model.Add(times[i, j] <= from_time_in_minutes).OnlyEnforceIf(assignments[i, j])
TimeWindowConstraint(a, t) ==
    \A p \in Assigned(a) : t[p] <= bookings[p[2]].from_time_in_minutes

\* The pairs (j, k) the no-overlap loop builds a constraint for, and the
\* connection it looks up for each: from j's dropoff to k's pickup.
OrderedPairs ==
    { jk \in BookingIndices \X BookingIndices :
        /\ jk[1] /= jk[2]
        /\ bookings[jk[1]].from_time_in_minutes >= bookings[jk[2]].from_time_in_minutes }
connection(j, k) == routes[<<bookings[j].dropoff_address, bookings[k].pickup_address>>]

\* times[i, j] >= times[i, k] + duration of k + unloading + connection, enforced
\* when vehicle i has both.
NoOverlapConstraint(a, t) ==
    \A i \in VehicleIndices : \A jk \in OrderedPairs :
        (a[<<i, jk[1]>>] /\ a[<<i, jk[2]>>]) =>
            t[<<i, jk[1]>>] >= t[<<i, jk[2]>>]
                                 + bookings[jk[2]].duration_in_minutes
                                 + dropoff_unloading_in_sec \div 60
                                 + connection(jk[1], jk[2]) \div 60

\* model.NewIntVar(0, 24 * 60, ...) narrowed to the start minutes that matter: a
\* start above every booked minute violates the time-window constraint of its
\* pair.
Minutes ==
    { m \in 0..(24 * 60) : \E p \in CpPickupInstants : m <= datetime_to_minutes(p) }

\* The solutions of the model: the assignments, and the start minutes of the
\* assigned pairs (the other start variables are constrained by nothing and
\* read by nothing).
Solutions ==
    UNION { { [assignments |-> a, times |-> t] :
                t \in { u \in [Assigned(a) -> Minutes] :
                          TimeWindowConstraint(a, u) /\ NoOverlapConstraint(a, u) } } :
            a \in { b \in [Pairs -> BOOLEAN] :
                      CoverConstraint(b) /\ CompatibilityConstraint(b) /\ ChainConstraint(b) } }

\* _add_objectives: with minimize_vehicles, model.Minimize(sum(vehicle_used) *
\* 1000), where vehicle_used is the dict {i: vehicle_used_i} and sum() over a
\* dict adds its keys 0..num_vehicles-1: the objective is that constant for
\* every solution.  Without the flag there is no objective.
RECURSIVE SumOfKeys(_)
SumOfKeys(n) == IF n = 0 THEN 0 ELSE (n - 1) + SumOfKeys(n - 1)
Objective(sol) ==
    IF request.optimization.minimize_vehicles
    THEN SumOfKeys(Len(vehicles)) * 1000
    ELSE 0

\* What the solver may report as OPTIMAL: a solution of least objective.
Optimal(sol) == \A other \in Solutions : Objective(sol) <= Objective(other)

\* The statuses after which _calculate raises ValueError.
FailureStatuses == {"INFEASIBLE", "MODEL_INVALID", "UNKNOWN"}

\* ORToolsScheduler._convert_to_trip and _convert_to_shuttle.
convert_to_trip(bi, start_time_in_minutes) ==
    [booking_id |-> bi.booking_id,
     scheduled_pickup_time |-> start_time_in_minutes,
     scheduled_dropoff_time |-> start_time_in_minutes + bi.duration_in_minutes]
convert_to_shuttle(vehicle, vehicle_trips) ==
    [trips |-> vehicle_trips, shuttle_name |-> vehicle.name, shuttle_id |-> vehicle.id]

\* vehicle_trips of _extract_solution for vehicle i: its bookings j in range
\* order.
RECURSIVE vehicle_trips(_, _, _)
vehicle_trips(sol, i, j) ==
    IF j > Len(bookings) THEN << >>
    ELSE IF sol.assignments[<<i, j>>]
         THEN <<convert_to_trip(bookings[j], sol.times[<<i, j>>])>>
                  \o vehicle_trips(sol, i, j + 1)
         ELSE vehicle_trips(sol, i, j + 1)

\* _extract_solution: one shuttle per vehicle with a trip, in vehicle order.
RECURSIVE extract_solution(_, _)
extract_solution(sol, i) ==
    IF i > Len(vehicles) THEN << >>
    ELSE IF vehicle_trips(sol, i, 1) /= << >>
         THEN <<convert_to_shuttle(vehicles[i], vehicle_trips(sol, i, 1))>>
                  \o extract_solution(sol, i + 1)
         ELSE extract_solution(sol, i + 1)

\* A ScheduleRequest with optimization is being put together.
InitCp ==
    /\ TasksIdle
    /\ DirIdle
    /\ ProcIdle
    /\ \E ts \in TimeSettings, o \in Optimizations, id \in DOMAIN Programs :
         request = [bookings |-> << >>,
                    before_pickup_time |-> ts.before_pickup_time,
                    after_pickup_time |-> ts.after_pickup_time,
                    dropoff_unloading_time |-> ts.dropoff_unloading_time,
                    optimization |-> o,
                    program_id |-> id]
    /\ routes \in CpRouteTables
    /\ gpc = "idle"
    /\ trips = << >>
    /\ all_trips = << >>
    /\ priority_trips = << >>
    /\ cursor = 0
    /\ plan = << >>
    /\ responses = NoResponses
    /\ cpc = "start"
    /\ vehicles = << >>
    /\ bookings = << >>
    /\ solution = NoSolution
    /\ shuttles = << >>
    /\ raised = None
    /\ reply = << >>

\* The request gets one more booking; the first booking's passenger is "p1"
\* (passenger names are interchangeable).
AddCpBooking ==
    /\ cpc = "start"
    /\ Len(request.bookings) < MaxCpBookings
    /\ \E b \in CpBookings :
         /\ Len(request.bookings) = 0 => b.passenger = "p1"
         /\ request' = [request EXCEPT !.bookings = Append(@, b)]
    /\ UNCHANGED <<routes, cpVars>>
    /\ CpFrame

\* POST /api/schedule with the request; _calculate loads the vehicles of the
\* request's program.
LoadVehicles ==
    /\ cpc = "start"
    /\ cpc' = "loaded"
    /\ vehicles' = Programs[request.program_id]
    /\ UNCHANGED <<request, routes, bookings, solution, shuttles, raised, reply>>
    /\ CpFrame

\* for booking in self.request.bookings: BookingInfo.create; a booking whose leg
\* has no route raises ValueError.
CreateBookingInfos ==
    /\ cpc = "loaded"
    /\ LET bs == request.bookings
           Leg(j) == routes[<<bs[j].pickup_address, bs[j].dropoff_address>>]
       IN IF \E j \in 1..Len(bs) : Leg(j) = NoRoute
          THEN /\ cpc' = "failed"
               /\ raised' = "No routes found"
               /\ UNCHANGED bookings
          ELSE /\ cpc' = "built"
               /\ bookings' = [j \in 1..Len(bs) |-> NewBookingInfo(j, bs[j], Leg(j))]
               /\ UNCHANGED raised
    /\ UNCHANGED <<request, routes, vehicles, solution, shuttles, reply>>
    /\ CpFrame

\* _add_constraints, _add_objectives and solver.Solve.  A connection without a
\* route raises ValueError while the no-overlap constraints are built.  The
\* solver answers OPTIMAL with a solution of least objective, FEASIBLE with any
\* solution, INFEASIBLE when there is none, or UNKNOWN when its time limit ends
\* the search first.
Solve ==
    /\ cpc = "built"
    /\ IF /\ vehicles /= << >>
          /\ \E jk \in OrderedPairs : connection(jk[1], jk[2]) = NoRoute
       THEN /\ cpc' = "failed"
            /\ raised' = "No routes found"
            /\ UNCHANGED solution
       ELSE /\ cpc' = "solved"
            /\ \/ \E sol \in Solutions, st \in {"OPTIMAL", "FEASIBLE"} :
                    /\ st = "OPTIMAL" => Optimal(sol)
                    /\ solution' = [status |-> st, assignments |-> sol.assignments,
                                    times |-> sol.times]
               \/ /\ Solutions = {}
                  /\ solution' = [NoSolution EXCEPT !.status = "INFEASIBLE"]
               \/ solution' = [NoSolution EXCEPT !.status = "UNKNOWN"]
            /\ UNCHANGED raised
    /\ UNCHANGED <<request, routes, vehicles, bookings, shuttles, reply>>
    /\ CpFrame

\* match status: INFEASIBLE, MODEL_INVALID, UNKNOWN and any other status raise
\* ValueError.
SolverFailed ==
    /\ cpc = "solved"
    /\ solution.status \notin {"OPTIMAL", "FEASIBLE"}
    /\ cpc' = "failed"
    /\ raised' = "OR-Tools solver failed with status: " \o solution.status
    /\ UNCHANGED <<request, routes, vehicles, bookings, solution, shuttles, reply>>
    /\ CpFrame

\* match status: OPTIMAL and FEASIBLE go on to _extract_solution.
ExtractSolution ==
    /\ cpc = "solved"
    /\ solution.status \in {"OPTIMAL", "FEASIBLE"}
    /\ cpc' = "done"
    /\ shuttles' = extract_solution(solution, 1)
    /\ UNCHANGED <<request, routes, vehicles, bookings, solution, raised, reply>>
    /\ CpFrame

\* routers/schedule.py create_task: the ScheduleResponse of _get_response, or
\* HTTP 400 with str(e) for a ValueError.
Respond ==
    /\ cpc \in {"done", "failed"}
    /\ reply = << >>
    /\ reply' = IF cpc = "done"
                THEN [http |-> 200,
                      body |-> [status |-> "success", error_code |-> 0,
                                vehicle_trip_list |-> shuttles]]
                ELSE [http |-> 400, body |-> [detail |-> raised]]
    /\ UNCHANGED <<request, routes, cpc, vehicles, bookings, solution, shuttles, raised>>
    /\ CpFrame

NextCp ==
    \/ AddCpBooking
    \/ LoadVehicles
    \/ CreateBookingInfos
    \/ Solve
    \/ SolverFailed
    \/ ExtractSolution
    \/ Respond

SpecCp == InitCp /\ [][NextCp]_vars

\* Number of places (shuttle, position) of the returned list that hold booking j.
CpPlacements(j) ==
    Cardinality({ sk \in { <<s, k>> : s \in 1..Len(shuttles), k \in 1..MaxCpBookings + 1 } :
                    /\ sk[2] <= Len(shuttles[sk[1]].trips)
                    /\ shuttles[sk[1]].trips[sk[2]].booking_id = j })

VehicleOf(shuttle) == CHOOSE v \in {vehicles[i] : i \in VehicleIndices} : v.id = shuttle.shuttle_id

C14_NoScheduleIsErrorResponse ==
    (solution.status \in FailureStatuses /\ reply /= << >>)
        => /\ reply.http = 200
           /\ reply.body.status = "error"
           /\ reply.body.error_code = 1

(***************************************************************************)
(* The processor of one process: start_processor, TaskProcessor.start,      *)
(* stop_processor and the loop tasks they create and cancel.                *)
(***************************************************************************)

\* Largest number of TaskProcessor objects and of loop tasks made.
MaxInstances == 3
MaxLoops == 4

\* TaskProcessor.__init__
NewTaskProcessor == [is_running |-> FALSE, task |-> 0]

\* TaskProcessor.start on instance i: without is_running it creates a loop task
\* and keeps it in _task; the task has not run yet.
StartOn(i, inst, ls) ==
    IF inst[i].is_running
    THEN [instances |-> inst, loops |-> ls]
    ELSE [instances |-> [inst EXCEPT ![i].task = Len(ls) + 1],
          loops |-> Append(ls, [instance |-> i, pc |-> "created"])]

InitProcessor == TasksIdle /\ GreedyIdle /\ DirIdle /\ CpIdle /\ ProcIdle

\* start_processor: with _processor None, make the TaskProcessor and start it.
StartProcessor ==
    /\ processor = 0
    /\ Len(instances) < MaxInstances
    /\ Len(loops) < MaxLoops
    /\ LET i == Len(instances) + 1
           r == StartOn(i, Append(instances, NewTaskProcessor), loops)
       IN /\ processor' = i
          /\ instances' = r.instances
          /\ loops' = r.loops
    /\ ProcFrame

\* TaskProcessor.start called on the processor of the process.
Start ==
    /\ processor /= 0
    /\ ~instances[processor].is_running
    /\ Len(loops) < MaxLoops
    /\ LET r == StartOn(processor, instances, loops)
       IN /\ instances' = r.instances
          /\ loops' = r.loops
    /\ UNCHANGED processor
    /\ ProcFrame

\* A loop task runs for the first time: run_processor_loop sets is_running.
LoopStart(l) ==
    /\ l \in DOMAIN loops
    /\ loops[l].pc = "created"
    /\ loops' = [loops EXCEPT ![l].pc = "running"]
    /\ instances' = [instances EXCEPT ![loops[l].instance].is_running = TRUE]
    /\ UNCHANGED processor
    /\ ProcFrame

\* `while self.is_running` read as false by a running loop: the loop returns.
LoopExit(l) ==
    /\ l \in DOMAIN loops
    /\ loops[l].pc = "running"
    /\ ~instances[loops[l].instance].is_running
    /\ loops' = [loops EXCEPT ![l].pc = "returned"]
    /\ UNCHANGED <<processor, instances>>
    /\ ProcFrame

\* stop_processor: TaskProcessor.stop clears is_running and cancels the task
\* kept in _task, then _processor = None.
StopProcessor ==
    /\ processor /= 0
    /\ LET t == instances[processor].task
       IN loops' = IF t /= 0 /\ loops[t].pc \in {"created", "running"}
                   THEN [loops EXCEPT ![t].pc = "cancelled"]
                   ELSE loops
    /\ instances' = [instances EXCEPT ![processor].is_running = FALSE]
    /\ processor' = 0
    /\ ProcFrame

NextProcessor ==
    \/ StartProcessor
    \/ Start
    \/ \E l \in 1..MaxLoops : LoopStart(l)
    \/ \E l \in 1..MaxLoops : LoopExit(l)
    \/ StopProcessor

SpecProcessor == InitProcessor /\ [][NextProcessor]_vars

\* C28: at most one processor loop is running in the process.
C28_OneLoop ==
    Cardinality({l \in DOMAIN loops : loops[l].pc = "running"}) <= 1

\* C11: a fetch that ends in the no-route ValueError (empty provider answer) or
\* in a provider error has changed nothing in the directions collection: none of
\* its steps up to and including the failure writes.
C11_FailuresNotCached ==
    [][ \A c \in Callers :
          (/\ fetchers'[c] /= fetchers[c]
           /\ fetchers'[c].pc \in {"lookup", "looked", "raised"}
           /\ fetchers'[c].error \in {"", "ValueError", "ApiError"})
            => directions' = directions
      ]_vars

\* One fetch ended in the no-route ValueError and another in a provider error,
\* with an entry in the cache.
C11_Witness ==
    /\ directions /= {}
    /\ \E c1, c2 \in Callers :
          /\ fetchers[c1].pc = "raised" /\ fetchers[c1].error = "ValueError"
          /\ fetchers[c2].pc = "raised" /\ fetchers[c2].error = "ApiError"

\* C17 as claimed: in a returned greedy plan the trips of a shuttle are strictly
\* ordered by booked pickup instant.
C17_StrictPickupOrder ==
    gpc = "done" =>
        \A s \in 1..Len(plan) : \A k \in 1..(Len(plan[s].trips) - 1) :
            trips[plan[s].trips[k]].pickup_time < trips[plan[s].trips[k + 1]].pickup_time

\* C17 amended: in a returned greedy plan the trips of a shuttle are strictly
\* ordered by adjusted (scheduled) pickup time.
C17_StrictAdjustedOrder ==
    gpc = "done" =>
        \A s \in 1..Len(plan) : \A k \in 1..(Len(plan[s].trips) - 1) :
            trips[plan[s].trips[k]].adjusted_pickup_time
                < trips[plan[s].trips[k + 1]].adjusted_pickup_time

\* A returned plan with a shuttle whose next trip is booked earlier than the one
\* before it.
C17_Witness ==
    /\ gpc = "done"
    /\ \E s \in 1..Len(plan) : \E k \in 1..(Len(plan[s].trips) - 1) :
          trips[plan[s].trips[k]].pickup_time > trips[plan[s].trips[k + 1]].pickup_time

\* The value the request gives for a time setting, the default when absent.
Given(v, default) == IF v = NoInt THEN default ELSE v

\* C18: a time setting given in the request (any value >= 0, 0 included) is the
\* value the scheduler uses, the default applying only to an absent field: the
\* trips built from the bookings have earliest_arrival_time = pickup_time - before,
\* finish_time = dropoff_time + dropoff_unloading and, as a last leg,
\* latest_pickup_time = pickup_time + after.
C18_OverridesReplaceDefaults ==
    gpc = "trips" =>
        \A i \in DOMAIN trips :
            /\ trips[i].earliest_arrival_time = trips[i].pickup_time
                  - Given(request.before_pickup_time, DEFAULT_BEFORE_PICKUP_TIME)
            /\ finish_time(trips[i]) = dropoff_time(trips[i])
                  + Given(request.dropoff_unloading_time, DEFAULT_DROPOFF_UNLOADING_TIME)
            /\ latest_pickup_time([trips[i] EXCEPT !.is_last = TRUE]) = trips[i].pickup_time
                  + Given(request.after_pickup_time, DEFAULT_AFTER_PICKUP_TIME)

\* The documents stored under the key of caller c's fetch.
EntriesOf(collection, c) ==
    {doc \in collection :
        doc.key = generate_key(fetchers[c].origin, fetchers[c].destination)}

\* C19: a cache write is an upsert: after every store, also of two concurrent
\* misses of one key that both called the provider, the collection holds exactly
\* one entry for the key, carrying the values of that write, and nothing else in
\* the collection changed.
C19_IdempotentWrites ==
    [][ \A c \in Callers :
          (fetchers[c].pc = "store" /\ fetchers'[c].pc = "stored")
            => /\ EntriesOf(directions', c) =
                    {[key |-> generate_key(fetchers[c].origin, fetchers[c].destination),
                      distance_in_meter |-> fetchers[c].data[1].distance_in_meter,
                      duration_in_seconds |-> fetchers[c].data[1].duration_in_seconds,
                      created_at |-> now]}
               /\ directions' \ EntriesOf(directions', c)
                    = directions \ EntriesOf(directions, c)
      ]_vars

\* Two concurrent misses of one key have both called the provider, got different
\* legs and both written: one entry is stored for the key.
C19_Witness ==
    \E c1, c2 \in Callers :
        /\ c1 /= c2
        /\ fetchers[c1].pc = "stored" /\ fetchers[c2].pc = "stored"
        /\ fetchers[c1].cached = << >> /\ fetchers[c2].cached = << >>
        /\ fetchers[c1].origin = fetchers[c2].origin
        /\ fetchers[c1].destination = fetchers[c2].destination
        /\ fetchers[c1].provided /= fetchers[c2].provided
        /\ Cardinality(EntriesOf(directions, c1)) = 1

\* C15: once the processor is stopped, every task of the batch that was in
\* flight has run to its finalize step and is COMPLETED or FAILED; none is left
\* cancelled before its write-back.
C15_ShutdownCompletesBatch ==
    \A e \in Executors :
        exPc[e] = "stopped" =>
            \A id \in 1..MaxTasks :
                co[e][id].pc /= "none" =>
                    /\ co[e][id].pc \in {"done", "raised"}
                    /\ tasks[id].status \in {COMPLETED, FAILED}

\* C20: under the fair running system every task written is eventually claimed
\* by an executor and eventually COMPLETED or FAILED.
C20_TaskLiveness ==
    \A id \in 1..MaxFairTasks :
        (id \in DOMAIN tasks)
          ~> (/\ id \in DOMAIN tasks
              /\ \E e \in Executors : id \in claimed[e]
              /\ tasks[id].status \in {COMPLETED, FAILED})

\* A task was claimed by both executors, and the executor finishing last left
\* it FAILED.
C20_Witness ==
    \E id \in DOMAIN tasks :
        /\ \A e \in Executors : id \in claimed[e] /\ exPc[e] = "sleep"
        /\ tasks[id].status = FAILED

\* C16: the response stored on the COMPLETED task equals the response the
\* synchronous call returned for the same request and routes, in every field.
C16_SyncAsyncEqual ==
    (responses["sync"] /= << >> /\ responses["task"] /= << >>)
        => responses["sync"] = responses["task"]

\* C21: a step of the scheduling phase never fails the request: a shuttle whose
\* connection to the trip has no route is skipped and the trip is placed.
C21_NoRouteSkipsShuttle ==
    [][ (gpc = "schedule" /\ cursor < Len(ScheduleOrder))
          => (gpc' = "schedule" /\ cursor' = cursor + 1) ]_vars

\* C22: the trips are placed bucket by bucket (STRETCHER, WHEELCHAIR,
\* AMBULATORY), each bucket in non-decreasing pickup order, and the shuttles,
\* indexed 1..n in creation order, have first trips of non-decreasing priority
\* number.
C22_PriorityOrder ==
    gpc \in {"schedule", "done"} =>
        /\ \A k, l \in 1..Len(ScheduleOrder) :
              k < l =>
                 LET a == trips[ScheduleOrder[k]]
                     b == trips[ScheduleOrder[l]]
                 IN /\ priority(a.assistance) <= priority(b.assistance)
                    /\ priority(a.assistance) = priority(b.assistance)
                          => a.pickup_time <= b.pickup_time
        /\ \A i, j \in 1..Len(plan) :
              /\ plan[i].idx = i
              /\ i < j => priority(trips[plan[i].trips[1]].assistance)
                            <= priority(trips[plan[j].trips[1]].assistance)

\* The request listed an AMBULATORY booking before a STRETCHER booking of an
\* earlier pickup, and the plan opens a STRETCHER shuttle before an AMBULATORY one.
C22_Witness ==
    /\ gpc = "done"
    /\ Len(plan) >= 2
    /\ trips[plan[1].trips[1]].assistance = STRETCHER
    /\ trips[plan[Len(plan)].trips[1]].assistance = AMBULATORY
    /\ trips[1].assistance = AMBULATORY
    /\ \E i \in DOMAIN trips : trips[i].assistance = STRETCHER /\ i > 1

\* The orders in which n shuttles can be enumerated.
Enumerations(n) == { f \in [1..n -> 1..n] : \A x, y \in 1..n : f[x] = f[y] => x = y }

\* The arrival the comparison of _is_better measures against.
Threshold(trip) ==
    IF trip.is_last THEN trip.pickup_time ELSE trip.pickup_time - before_pickup_in_sec

\* C23: for the trip about to be placed, when no fit check raises and the
\* accepting shuttles have pairwise distinct arrivals, the scan chooses the same
\* shuttle in whatever order the shuttles are enumerated, and it chooses one
\* arriving at or before the threshold when there is one.
C23_BestFitOrderIndependent ==
    (gpc = "schedule" /\ cursor < Len(ScheduleOrder)) =>
        LET trip == trips[ScheduleOrder[cursor + 1]]
            fit(i) == is_trip_fit(plan[i], trip, trips)
            accepting == {i \in 1..Len(plan) : fit(i).kind = "fit"}
            none == [kind |-> "ok", shuttle |-> 0, arrival |-> NoInt]
            chosen == ScanPlan(plan, trip, trips, 1, none)
        IN (/\ \A i \in 1..Len(plan) : fit(i).kind /= "raise"
            /\ \A i, j \in accepting : i /= j => fit(i).arrival /= fit(j).arrival)
           => /\ \A e \in Enumerations(Len(plan)) :
                    LET other == ScanPlan([k \in 1..Len(plan) |-> plan[e[k]]],
                                          trip, trips, 1, none)
                    IN IF chosen.shuttle = 0 THEN other.shuttle = 0
                       ELSE other.shuttle /= 0 /\ e[other.shuttle] = chosen.shuttle
              /\ (\E i \in accepting : fit(i).arrival <= Threshold(trip))
                    => chosen.arrival <= Threshold(trip)

\* C30: in a returned greedy plan every trip of a shuttle is compatible with
\* the assistance of the shuttle's first trip: equal to it, or AMBULATORY.
C30_GreedyCompatible ==
    gpc = "done" =>
        \A s \in 1..Len(plan) : \A k \in 1..Len(plan[s].trips) :
            compatible(trips[plan[s].trips[1]].assistance,
                       trips[plan[s].trips[k]].assistance)

\* C30 as it holds: in a returned greedy plan no trip of a shuttle has a higher
\* priority than the shuttle's first trip (a STRETCHER shuttle may carry
\* WHEELCHAIR and AMBULATORY trips, a WHEELCHAIR shuttle AMBULATORY trips).
C30_FirstTripHighestPriority ==
    gpc = "done" =>
        \A s \in 1..Len(plan) : \A k \in 1..Len(plan[s].trips) :
            priority(trips[plan[s].trips[1]].assistance)
                <= priority(trips[plan[s].trips[k]].assistance)

\* A shuttle opened by a STRETCHER trip carries a WHEELCHAIR trip.
C30_Witness ==
    /\ gpc = "done"
    /\ \E s \in 1..Len(plan) : \E k \in 1..Len(plan[s].trips) :
          /\ trips[plan[s].trips[1]].assistance = STRETCHER
          /\ trips[plan[s].trips[k]].assistance = WHEELCHAIR

\* The start minute and the booking of the k-th trip of shuttle s.
StartOf(s, k) == shuttles[s].trips[k].scheduled_pickup_time
BookingOf(s, k) == bookings[shuttles[s].trips[k].booking_id]

\* C24: in a returned CP plan, two distinct trips a, b of one vehicle with
\* pickup(a) >= pickup(b) satisfy time(a) >= time(b) + duration(b) + unloading +
\* travel from b's dropoff address to a's pickup address.
C24_NoOverlap ==
    cpc = "done" =>
        \A s \in 1..Len(shuttles) : \A ka, kb \in 1..Len(shuttles[s].trips) :
            LET a == BookingOf(s, ka)
                b == BookingOf(s, kb)
            IN (ka /= kb /\ a.from_time_in_minutes >= b.from_time_in_minutes)
                 => StartOf(s, ka) >= StartOf(s, kb)
                                        + b.duration_in_minutes
                                        + dropoff_unloading_in_sec \div 60
                                        + routes[<<b.dropoff_address, a.pickup_address>>] \div 60

\* C25: every shuttle of a returned CP plan has a trip, its trips are in
\* non-decreasing order of start minute, and there are as many shuttles as
\* vehicles with an assigned booking.
C25_ExtractionSorted ==
    cpc = "done" =>
        /\ \A s \in 1..Len(shuttles) :
              /\ shuttles[s].trips /= << >>
              /\ \A k, l \in 1..Len(shuttles[s].trips) :
                    k < l => StartOf(s, k) <= StartOf(s, l)
        /\ Len(shuttles)
             = Cardinality({i \in VehicleIndices :
                              \E j \in BookingIndices : solution.assignments[<<i, j>>]})

\* Number of vehicles an assignment uses.
Used(a) == Cardinality({i \in VehicleIndices : \E j \in BookingIndices : a[<<i, j>>]})

\* C26: with minimize_vehicles set and status OPTIMAL, the returned plan has as
\* few shuttles as any solution of the constraints uses vehicles.
C26_VehiclesMinimised ==
    (cpc = "done" /\ request.optimization.minimize_vehicles
                  /\ solution.status = "OPTIMAL")
        => \A sol \in Solutions : Len(shuttles) <= Used(sol.assignments)

\* C27: an exception caught in an iteration of the processor loop does not end
\* the loop: the loop goes on to its sleep and is again and again at the point
\* where it makes its next claim.
C27_LoopResilience ==
    \A e \in Executors :
        /\ (exPc[e] = "caught") ~> (exPc[e] = "sleep")
        /\ []<>(exPc[e] = "sleep")

\* An executor has caught the exception of a failed claim while a task waits.
C27_Witness ==
    \E e \in Executors :
        /\ exPc[e] = "caught"
        /\ \E id \in DOMAIN tasks : tasks[id].status = PENDING

\* C29: the write-back of a failed task changes no other task and no other
\* coroutine of the batch; every write-back stores COMPLETED or FAILED on its
\* own task; and the batch is only over when every one of its coroutines has run
\* to its write-back.
C29_FailureIsolation ==
    [][ \A e \in Executors :
          /\ \A id \in 1..MaxTasks :
                (co[e][id].pc = "write" /\ co'[e][id].pc \in {"done", "raised"})
                  => /\ tasks'[id].status
                          = IF co'[e][id].pc = "done" THEN COMPLETED ELSE FAILED
                     /\ \A other \in DOMAIN tasks \ {id} :
                          /\ tasks'[other] = tasks[other]
                          /\ co'[e][other] = co[e][other]
          /\ (exPc[e] = "gather" /\ exPc'[e] = "sleep")
                  => \A id \in exIds[e] : co[e][id].pc \in {"done", "raised"} ]_vars

\* A batch of two tasks is over: one task FAILED, the other COMPLETED with its
\* response.
C29_Witness ==
    /\ exPc[BatchExecutor] = "sleep"
    /\ claimed[BatchExecutor] = {1, 2}
    /\ \E a, b \in DOMAIN tasks :
          /\ tasks[a].status = FAILED
          /\ tasks[b].status = COMPLETED
          /\ tasks[b].response = "response"

====
